---- MODULE Spec2Model ----
(***************************************************************************)
(* Model of the streaming synthesis pipeline of orpheus.py:                *)
(* LocalTTS / SynthesizeStream._run with its three tasks (_input_task,     *)
(* _sentence_stream_task, _recv_task), the websocket session they share,   *)
(* the sentence tokenizer stream between the first two, and the calls the  *)
(* receive task makes on the audio emitter.                                *)
(***************************************************************************)
EXTENDS Naturals, Sequences, FiniteSets, TLC

\* ---------------------------------------------------------------- bounds
\* number of external events of one run: items the caller pushes (text
\* fragments, flush sentinels), messages the server sends, option updates
MaxEvents == 3

\* ------------------------------------------------------------ value sets
\* text is a sequence of characters; "." ends a sentence
Frags == { <<"a">>, <<"a", ".">> }
Voices == { "tara", "leo" }
Payloads == { 1, 2 }
ServerIds == { <<"srv", 1>>, <<"srv", 2>> }
NoId == <<"none", 0>>
FinalId == <<"final", 0>>

\* utils.shortuuid(): a fresh identifier, the n-th one handed out
shortuuid(n) == <<"uuid", n>>

\* an inbound websocket message as aiohttp hands it to the loop of _recv_task:
\* BINARY with its data, or TEXT with the outcome of json.loads / data.get("type") /
\* data.get("segment_id")
BinaryMsg(d) == [type |-> "BINARY", json |-> "none", sid |-> NoId, data |-> d]
TextMsg(j, s) == [type |-> "TEXT", json |-> j, sid |-> s, data |-> 0]

\* json: "malformed" (json.loads or data.get raises), "start", "end",
\* "unknown" (data.get("type") is neither: another type, or None for no type field)
Messages ==
    { BinaryMsg(d) : d \in Payloads }
    \cup { TextMsg("start", s) : s \in ServerIds \cup {NoId} }
    \cup { TextMsg(j, NoId) : j \in {"malformed", "end", "unknown"} }

\* calls on the AudioEmitter
StartSegment(id) == [op |-> "start_segment", sid |-> id, data |-> 0]
Push(d) == [op |-> "push", sid |-> NoId, data |-> d]
EndSegment == [op |-> "end_segment", sid |-> NoId, data |-> 0]
Flush == [op |-> "flush", sid |-> NoId, data |-> 0]

\* items of the stream's input channel
TextItem(t) == [k |-> "text", t |-> t]
FlushSentinel == [k |-> "flush", t |-> <<>>]

VARIABLES
    ttsVoice,        \* LocalTTS._opts.voice
    streamVoice,     \* SynthesizeStream._opts.voice (replace(tts._opts))
    start_time,      \* SynthesizeStream._start_time is set
    inputCh,         \* self._input_ch: items pushed and not yet consumed
    inputClosed,     \* the caller called end_input()
    nInput,          \* number of items the caller pushed
    nUpdates,        \* number of update_options calls
    tokBuf,          \* tokenizer stream: buffered text
    tokQ,            \* tokenizer stream: tokens produced and not yet consumed
    tokClosed,       \* tokenizer stream: end_input() was called
    produced,        \* history: every token the tokenizer produced, in order
    pcInput,         \* _input_task: "none", "run", "done", "cancelled"
    pcSent,          \* _sentence_stream_task: "none", "wait", "send", "done", "failed", "cancelled"
    curPkt,          \* the packet _sentence_stream_task is sending
    sent,            \* history: packets whose ws.send_str completed, in order
    pcRecv,          \* _recv_task: "none", "run", "done", "failed", "cancelled"
    segment_started, \* local of _recv_task
    first_chunk,     \* local of _recv_task
    recvLog,         \* history: messages _recv_task took from the websocket
    emitLog,         \* history: calls made on the AudioEmitter
    initialized,     \* output_emitter.initialize was called
    uuidCtr,         \* number of shortuuid() calls so far
    ws,              \* "none" (ws is None), "open", "closed" (ws.closed)
    connLost,        \* the transport dropped under the open websocket
    peerClosed,      \* history: the websocket was closed from the receive side
    pcRun,           \* _run: "idle", "connecting", "gather", "cancelling", "finalize", "closed"
    cancelReq,       \* cancel() was requested on the three tasks
    gatherExc,       \* the exception gather re-raises: the first task failure
    aborted,         \* the task running _run was cancelled
    result,          \* outcome of _run: "none", "ok", "timeout", "connerror", "cancelled",
                     \* "closeerror" (what _close_ws raised)
    closeCalls,      \* number of LocalTTS._close_ws calls
    finalizerRuns,   \* number of times the outer finally block of _run ran
    streams          \* LocalTTS._streams: the streams the client tracks

vars == << ttsVoice, streamVoice, start_time, inputCh, inputClosed, nInput, nUpdates,
           tokBuf, tokQ, tokClosed, produced, pcInput, pcSent, curPkt, sent,
           pcRecv, segment_started, first_chunk, recvLog, emitLog, initialized,
           uuidCtr, ws, connLost, peerClosed, pcRun, cancelReq, gatherExc,
           aborted, result, closeCalls, finalizerRuns, streams >>

callerVars == << start_time, inputCh, inputClosed, nInput >>
tokVars == << tokBuf, tokQ, tokClosed, produced >>
sentVars == << pcSent, curPkt, sent >>
recvVars == << pcRecv, segment_started, first_chunk, recvLog, emitLog >>
wireVars == << ws, connLost, peerClosed >>
runVars == << pcRun, cancelReq, gatherExc, aborted, result, closeCalls, finalizerRuns >>
optVars == << ttsVoice, streamVoice, streams, nUpdates >>

\* external events so far
Events == nInput + Len(recvLog) + nUpdates

NoPkt == [voice |-> "", input |-> <<>>, continue |-> FALSE, segment_id |-> NoId]

\* LocalTTS.__init__ followed by LocalTTS.stream(): the stream snapshots the options
Init ==
    /\ ttsVoice = "tara"
    /\ streamVoice = ttsVoice
    /\ start_time = FALSE
    /\ inputCh = <<>>
    /\ inputClosed = FALSE
    /\ nInput = 0
    /\ nUpdates = 0
    /\ tokBuf = <<>>
    /\ tokQ = <<>>
    /\ tokClosed = FALSE
    /\ produced = <<>>
    /\ pcInput = "none"
    /\ pcSent = "none"
    /\ curPkt = NoPkt
    /\ sent = <<>>
    /\ pcRecv = "none"
    /\ segment_started = FALSE
    /\ first_chunk = TRUE
    /\ recvLog = <<>>
    /\ emitLog = <<>>
    /\ initialized = FALSE
    /\ uuidCtr = 0
    /\ ws = "none"
    /\ connLost = FALSE
    /\ peerClosed = FALSE
    /\ pcRun = "idle"
    /\ cancelReq = FALSE
    /\ gatherExc = "none"
    /\ aborted = FALSE
    /\ result = "none"
    /\ closeCalls = 0
    /\ finalizerRuns = 0
    /\ streams = {"stream"}

\* ------------------------------------------------------------ the caller
\* SynthesizeStream.push_text: stamps _start_time on the first call, then
\* hands the text to the input channel
PushText(t) ==
    /\ pcRun # "closed"
    /\ ~inputClosed
    /\ Events < MaxEvents
    /\ start_time' = TRUE
    /\ inputCh' = Append(inputCh, TextItem(t))
    /\ nInput' = nInput + 1
    /\ UNCHANGED << inputClosed, tokVars, pcInput, sentVars, recvVars, initialized,
                    uuidCtr, wireVars, runVars, optVars >>

\* the caller's flush(): a _FlushSentinel on the input channel
PushFlush ==
    /\ pcRun # "closed"
    /\ ~inputClosed
    /\ Events < MaxEvents
    /\ inputCh' = Append(inputCh, FlushSentinel)
    /\ nInput' = nInput + 1
    /\ UNCHANGED << start_time, inputClosed, tokVars, pcInput, sentVars, recvVars,
                    initialized, uuidCtr, wireVars, runVars, optVars >>

\* the caller's end_input(): the input channel is closed
EndInput ==
    /\ pcRun # "closed"
    /\ ~inputClosed
    /\ inputClosed' = TRUE
    /\ UNCHANGED << start_time, inputCh, nInput, tokVars, pcInput, sentVars, recvVars,
                    initialized, uuidCtr, wireVars, runVars, optVars >>

\* LocalTTS.update_options(voice=v): writes the client's options only
UpdateOptions(v) ==
    /\ Events < MaxEvents
    /\ ttsVoice' = v
    /\ nUpdates' = nUpdates + 1
    /\ UNCHANGED << streamVoice, streams, callerVars, tokVars, pcInput, sentVars,
                    recvVars, initialized, uuidCtr, wireVars, runVars >>

\* ------------------------------------------------- the sentence tokenizer
\* the tokenizer stream emits the buffered text as one token when a sentence
\* end has been pushed; the results are [buf, out]
TokPushText(buf, t) ==
    LET b == buf \o t
    IN  IF b # <<>> /\ b[Len(b)] = "."
        THEN [buf |-> <<>>, out |-> << b >>]
        ELSE [buf |-> b, out |-> <<>>]

\* flush(): whatever is buffered is emitted as a token
TokFlush(buf) ==
    IF buf # <<>> THEN [buf |-> <<>>, out |-> << buf >>]
                  ELSE [buf |-> <<>>, out |-> <<>>]

\* a task that has returned, raised or been cancelled
Terminated(pc) == pc \in {"done", "failed", "cancelled"}

\* ----------------------------------------------------------- _input_task
\* one iteration of the loop over self._input_ch
InputStep ==
    /\ pcInput = "run"
    /\ ~cancelReq
    /\ inputCh # <<>>
    /\ LET item == Head(inputCh)
           r == IF item.k = "flush" THEN TokFlush(tokBuf)
                                    ELSE TokPushText(tokBuf, item.t)
       IN  /\ tokBuf' = r.buf
           /\ tokQ' = tokQ \o r.out
           /\ produced' = produced \o r.out
    /\ inputCh' = Tail(inputCh)
    /\ UNCHANGED << start_time, inputClosed, nInput, tokClosed, pcInput, sentVars,
                    recvVars, initialized, uuidCtr, wireVars, runVars, optVars >>

\* the input channel is exhausted and closed: end_input() on the tokenizer
InputEnd ==
    /\ pcInput = "run"
    /\ ~cancelReq
    /\ inputCh = <<>>
    /\ inputClosed
    /\ LET r == TokFlush(tokBuf)
       IN  /\ tokBuf' = r.buf
           /\ tokQ' = tokQ \o r.out
           /\ produced' = produced \o r.out
    /\ tokClosed' = TRUE
    /\ pcInput' = "done"
    /\ UNCHANGED << callerVars, sentVars, recvVars, initialized, uuidCtr, wireVars,
                    runVars, optVars >>

\* CancelledError delivered to _input_task. cancel() is called on the tasks in
\* the order of the list (input, sentence, receive) and the event loop wakes
\* them in that order
InputCancel ==
    /\ pcInput = "run"
    /\ cancelReq
    /\ pcInput' = "cancelled"
    /\ UNCHANGED << callerVars, tokVars, sentVars, recvVars, initialized, uuidCtr,
                    wireVars, runVars, optVars >>

\* -------------------------------------------------- _sentence_stream_task
\* the packet built for a token
TokenPkt(voice, token, id) ==
    [voice |-> voice, input |-> Append(token, " "), continue |-> TRUE,
     segment_id |-> id]

\* the packet built after the token stream ended
FinalPkt(voice) ==
    [voice |-> voice, input |-> <<>>, continue |-> FALSE, segment_id |-> FinalId]

\* SentNext taking the newest token instead of the oldest
SentNextNewest ==
    /\ pcSent = "wait"
    /\ ~cancelReq
    /\ tokQ # <<>>
    /\ curPkt' = TokenPkt(streamVoice, tokQ[Len(tokQ)], shortuuid(uuidCtr + 1))
    /\ uuidCtr' = uuidCtr + 1
    /\ tokQ' = SubSeq(tokQ, 1, Len(tokQ) - 1)
    /\ pcSent' = "send"
    /\ UNCHANGED << callerVars, tokBuf, tokClosed, produced, pcInput, sent, recvVars,
                    initialized, wireVars, runVars, optVars >>

\* SentNext reading the voice from the client's options at each request
SentNextLiveVoice ==
    /\ pcSent = "wait"
    /\ ~cancelReq
    /\ tokQ # <<>>
    /\ curPkt' = TokenPkt(ttsVoice, Head(tokQ), shortuuid(uuidCtr + 1))
    /\ uuidCtr' = uuidCtr + 1
    /\ tokQ' = Tail(tokQ)
    /\ pcSent' = "send"
    /\ UNCHANGED << callerVars, tokBuf, tokClosed, produced, pcInput, sent, recvVars,
                    initialized, wireVars, runVars, optVars >>

\* the loop takes the next token and starts sending its packet
SentNext ==
    /\ pcSent = "wait"
    /\ ~cancelReq
    /\ tokQ # <<>>
    /\ curPkt' = TokenPkt(streamVoice, Head(tokQ), shortuuid(uuidCtr + 1))
    /\ uuidCtr' = uuidCtr + 1
    /\ tokQ' = Tail(tokQ)
    /\ pcSent' = "send"
    /\ UNCHANGED << callerVars, tokBuf, tokClosed, produced, pcInput, sent, recvVars,
                    initialized, wireVars, runVars, optVars >>

\* SentFinal returning without the final packet
SentFinalSkipped ==
    /\ pcSent = "wait"
    /\ ~cancelReq
    /\ tokQ = <<>>
    /\ tokClosed
    /\ pcSent' = "done"
    /\ UNCHANGED << callerVars, tokVars, pcInput, curPkt, sent, recvVars, initialized,
                    uuidCtr, wireVars, runVars, optVars >>

\* the token stream ended: the final packet is built and its send starts
SentFinal ==
    /\ pcSent = "wait"
    /\ ~cancelReq
    /\ tokQ = <<>>
    /\ tokClosed
    /\ curPkt' = FinalPkt(streamVoice)
    /\ pcSent' = "send"
    /\ UNCHANGED << callerVars, tokVars, pcInput, sent, recvVars, initialized, uuidCtr,
                    wireVars, runVars, optVars >>

\* where the task goes after a completed send
AfterSend(pkt) == IF pkt.continue THEN "wait" ELSE "done"

\* ws.send_str completes
SendOk ==
    /\ pcSent = "send"
    /\ ~cancelReq
    /\ ws = "open"
    /\ ~connLost
    /\ sent' = Append(sent, curPkt)
    /\ pcSent' = AfterSend(curPkt)
    /\ curPkt' = NoPkt
    /\ UNCHANGED << callerVars, tokVars, pcInput, recvVars, initialized, uuidCtr,
                    wireVars, runVars, optVars >>

\* ws.send_str raises on a closed or lost connection; the task ends with the error
SendFail ==
    /\ pcSent = "send"
    /\ ~cancelReq
    /\ (ws = "closed" \/ connLost)
    /\ pcSent' = "failed"
    /\ curPkt' = NoPkt
    /\ gatherExc' = IF gatherExc = "none" THEN "send_error" ELSE gatherExc
    /\ UNCHANGED << callerVars, tokVars, pcInput, sent, recvVars, initialized, uuidCtr,
                    wireVars, pcRun, cancelReq, aborted, result, closeCalls,
                    finalizerRuns, optVars >>

\* CancelledError delivered to _sentence_stream_task
SentCancel ==
    /\ pcSent \in {"wait", "send"}
    /\ cancelReq
    /\ Terminated(pcInput)
    /\ pcSent' = "cancelled"
    /\ curPkt' = NoPkt
    /\ UNCHANGED << callerVars, tokVars, pcInput, sent, recvVars, initialized, uuidCtr,
                    wireVars, runVars, optVars >>

\* ------------------------------------------------------------- _recv_task
\* RecvEffect with the first-start guard of the start branch left out
RecvEffectRestart(m, started, id) ==
    IF m.type = "BINARY" THEN
        [calls |-> (IF started THEN <<>> ELSE << StartSegment(id) >>) \o << Push(m.data) >>,
         started |-> TRUE, raised |-> FALSE, ids |-> IF started THEN 0 ELSE 1]
    ELSE IF m.json = "malformed" \/ (m.json = "start" /\ m.sid = NoId) THEN
        [calls |-> <<>>, started |-> started, raised |-> TRUE, ids |-> 0]
    ELSE IF m.json = "start" THEN
        [calls |-> << StartSegment(m.sid) >>, started |-> TRUE, raised |-> FALSE, ids |-> 0]
    ELSE [calls |-> <<>>, started |-> started, raised |-> FALSE, ids |-> 0]

\* RecvEffect with the chunk that opens the segment not pushed
RecvEffectDropFirst(m, started, id) ==
    IF m.type = "BINARY" THEN
        [calls |-> IF started THEN << Push(m.data) >> ELSE << StartSegment(id) >>,
         started |-> TRUE, raised |-> FALSE, ids |-> IF started THEN 0 ELSE 1]
    ELSE IF m.json = "malformed" \/ (m.json = "start" /\ ~started /\ m.sid = NoId) THEN
        [calls |-> <<>>, started |-> started, raised |-> TRUE, ids |-> 0]
    ELSE IF m.json = "start" /\ ~started THEN
        [calls |-> << StartSegment(m.sid) >>, started |-> TRUE, raised |-> FALSE, ids |-> 0]
    ELSE [calls |-> <<>>, started |-> started, raised |-> FALSE, ids |-> 0]

\* RecvEffect with an end frame closing the open segment
RecvEffectEndCloses(m, started, id) ==
    IF m.type = "BINARY" THEN
        [calls |-> (IF started THEN <<>> ELSE << StartSegment(id) >>) \o << Push(m.data) >>,
         started |-> TRUE, raised |-> FALSE, ids |-> IF started THEN 0 ELSE 1]
    ELSE IF m.json = "malformed" \/ (m.json = "start" /\ ~started /\ m.sid = NoId) THEN
        [calls |-> <<>>, started |-> started, raised |-> TRUE, ids |-> 0]
    ELSE IF m.json = "start" /\ ~started THEN
        [calls |-> << StartSegment(m.sid) >>, started |-> TRUE, raised |-> FALSE, ids |-> 0]
    ELSE IF m.json = "end" /\ started THEN
        [calls |-> << EndSegment >>, started |-> FALSE, raised |-> FALSE, ids |-> 0]
    ELSE [calls |-> <<>>, started |-> started, raised |-> FALSE, ids |-> 0]

\* what the loop body does with one message while segment_started = started:
\* the emitter calls it makes, the new segment_started, whether it raises,
\* and the number of shortuuid() calls
RecvEffect(m, started, id) ==
    IF m.type = "BINARY" THEN
        [calls |-> (IF started THEN <<>> ELSE << StartSegment(id) >>) \o << Push(m.data) >>,
         started |-> TRUE, raised |-> FALSE, ids |-> IF started THEN 0 ELSE 1]
    ELSE IF m.type = "TEXT" THEN
        IF m.json = "malformed" THEN
            [calls |-> <<>>, started |-> started, raised |-> TRUE, ids |-> 0]
        ELSE IF m.json = "start" /\ ~started THEN
            IF m.sid = NoId
            THEN [calls |-> <<>>, started |-> started, raised |-> TRUE, ids |-> 0]
            ELSE [calls |-> << StartSegment(m.sid) >>, started |-> TRUE,
                  raised |-> FALSE, ids |-> 0]
        ELSE [calls |-> <<>>, started |-> started, raised |-> FALSE, ids |-> 0]
    ELSE [calls |-> <<>>, started |-> started, raised |-> FALSE, ids |-> 0]

\* RecvFinally with the segment left open
RecvFinallyNoEnd(started) == <<>>

\* the finally block of _recv_task
RecvFinally(started) == IF started THEN << EndSegment >> ELSE <<>>

\* the time-to-first-chunk report: first_chunk after a message
FirstChunkAfter(m, fc, st) == IF m.type = "BINARY" /\ fc /\ st THEN FALSE ELSE fc

\* one iteration of the loop over ws: a message arrives and is handled; an
\* exception raised by the body runs the finally block and ends the task
RecvMsg(m) ==
    /\ pcRecv = "run"
    /\ ~cancelReq
    /\ ws = "open"
    /\ ~connLost
    /\ Events < MaxEvents
    /\ LET e == RecvEffect(m, segment_started, shortuuid(uuidCtr + 1))
       IN  /\ recvLog' = Append(recvLog, m)
           /\ segment_started' = e.started
           /\ first_chunk' = FirstChunkAfter(m, first_chunk, start_time)
           /\ uuidCtr' = uuidCtr + e.ids
           /\ IF e.raised
              THEN /\ emitLog' = emitLog \o e.calls \o RecvFinally(e.started)
                   /\ pcRecv' = "failed"
                   /\ gatherExc' = IF gatherExc = "none" THEN "recv_error" ELSE gatherExc
              ELSE /\ emitLog' = emitLog \o e.calls
                   /\ UNCHANGED << pcRecv, gatherExc >>
    /\ UNCHANGED << callerVars, tokVars, pcInput, sentVars, initialized, wireVars,
                    pcRun, cancelReq, aborted, result, closeCalls, finalizerRuns,
                    optVars >>

\* the server closes the connection: the iteration over ws ends (aiohttp has
\* closed the websocket by then), the finally block runs, the task returns
RecvClose ==
    /\ pcRecv = "run"
    /\ ~cancelReq
    /\ ws = "open"
    /\ ~connLost
    /\ ws' = "closed"
    /\ peerClosed' = TRUE
    /\ emitLog' = emitLog \o RecvFinally(segment_started)
    /\ pcRecv' = "done"
    /\ UNCHANGED << callerVars, tokVars, pcInput, sentVars, segment_started,
                    first_chunk, recvLog, initialized, uuidCtr, connLost, runVars,
                    optVars >>

\* the transport drops while the websocket is open
ConnDrop ==
    /\ pcRun = "gather"
    /\ ws = "open"
    /\ ~connLost
    /\ connLost' = TRUE
    /\ UNCHANGED << callerVars, tokVars, pcInput, sentVars, recvVars, initialized,
                    uuidCtr, ws, peerClosed, runVars, optVars >>

\* the receive on a dropped transport: aiohttp reports it to the iteration as
\* a closed websocket, so the loop ends as it does on a close
RecvDropped ==
    /\ pcRecv = "run"
    /\ ~cancelReq
    /\ ws = "open"
    /\ connLost
    /\ ws' = "closed"
    /\ peerClosed' = TRUE
    /\ emitLog' = emitLog \o RecvFinally(segment_started)
    /\ pcRecv' = "done"
    /\ UNCHANGED << callerVars, tokVars, pcInput, sentVars, segment_started,
                    first_chunk, recvLog, initialized, uuidCtr, connLost, runVars,
                    optVars >>

\* RecvCancel with the cancellation ending the task before its finally block
RecvCancelNoFinally ==
    /\ pcRecv = "run"
    /\ cancelReq
    /\ Terminated(pcInput)
    /\ Terminated(pcSent)
    /\ pcRecv' = "cancelled"
    /\ UNCHANGED << callerVars, tokVars, pcInput, sentVars, segment_started,
                    first_chunk, recvLog, emitLog, initialized, uuidCtr, wireVars,
                    runVars, optVars >>

\* RecvCancel with the CancelledError suppressed inside the loop: the task
\* goes back to waiting for a message
RecvCancelIgnored ==
    /\ pcRecv = "run"
    /\ cancelReq
    /\ Terminated(pcInput)
    /\ Terminated(pcSent)
    /\ UNCHANGED vars

\* CancelledError delivered to _recv_task: suppressed, the finally block runs
RecvCancel ==
    /\ pcRecv = "run"
    /\ cancelReq
    /\ Terminated(pcInput)
    /\ Terminated(pcSent)
    /\ emitLog' = emitLog \o RecvFinally(segment_started)
    /\ pcRecv' = "done"
    /\ UNCHANGED << callerVars, tokVars, pcInput, sentVars, segment_started,
                    first_chunk, recvLog, initialized, uuidCtr, wireVars, runVars,
                    optVars >>

\* ------------------------------------------------------------------- _run
AllTerminated == Terminated(pcInput) /\ Terminated(pcSent) /\ Terminated(pcRecv)
AllDone == pcInput = "done" /\ pcSent = "done" /\ pcRecv = "done"

\* Outcome with every exception reported as a timeout
OutcomeAllTimeout(wasAborted, exc) ==
    IF wasAborted THEN "cancelled"
    ELSE IF exc # "none" THEN "timeout"
    ELSE "ok"

\* the exception handlers of _run: what the caller gets for what was raised
Outcome(wasAborted, exc) ==
    IF wasAborted THEN "cancelled"
    ELSE IF exc = "timeout" THEN "timeout"
    ELSE IF exc # "none" THEN "connerror"
    ELSE "ok"

\* ShouldClose without the test of ws.closed
ShouldCloseAny(w) == w # "none"

\* the guard of the outer finally block: is _close_ws called
ShouldClose(w) == w # "none" /\ w # "closed"

\* RunStart with the initialize call left for after the connect
RunStartNoInit ==
    /\ pcRun = "idle"
    /\ uuidCtr' = uuidCtr + 1
    /\ pcRun' = "connecting"
    /\ UNCHANGED << callerVars, tokVars, pcInput, sentVars, recvVars, wireVars,
                    initialized, cancelReq, gatherExc, aborted, result, closeCalls,
                    finalizerRuns, optVars >>

\* request_id and output_emitter.initialize, then the connect starts
RunStart ==
    /\ pcRun = "idle"
    /\ uuidCtr' = uuidCtr + 1
    /\ initialized' = TRUE
    /\ pcRun' = "connecting"
    /\ UNCHANGED << callerVars, tokVars, pcInput, sentVars, recvVars, wireVars,
                    cancelReq, gatherExc, aborted, result, closeCalls, finalizerRuns,
                    optVars >>

\* _connect_ws returns the websocket; the three tasks are created
ConnectOk ==
    /\ pcRun = "connecting"
    /\ ws' = "open"
    /\ pcInput' = "run"
    /\ pcSent' = "wait"
    /\ pcRecv' = "run"
    /\ pcRun' = "gather"
    /\ UNCHANGED << callerVars, tokVars, curPkt, sent, segment_started, first_chunk,
                    recvLog, emitLog, initialized, uuidCtr, connLost, peerClosed,
                    cancelReq, gatherExc, aborted, result, closeCalls, finalizerRuns,
                    optVars >>

\* _connect_ws raises: asyncio.TimeoutError from wait_for ("timeout") or a
\* client error from ws_connect ("connect_error"); ws stays None, the finally
\* block has nothing to close
ConnectFail(exc) ==
    /\ pcRun = "connecting"
    /\ result' = Outcome(FALSE, exc)
    /\ finalizerRuns' = finalizerRuns + 1
    /\ pcRun' = "closed"
    /\ UNCHANGED << callerVars, tokVars, pcInput, sentVars, recvVars, initialized,
                    uuidCtr, wireVars, cancelReq, gatherExc, aborted, closeCalls,
                    optVars >>

\* GatherDone with gather returning at the first task to complete
GatherDoneAny ==
    /\ pcRun = "gather"
    /\ pcInput = "done" \/ pcSent = "done" \/ pcRecv = "done"
    /\ cancelReq' = TRUE
    /\ pcRun' = "cancelling"
    /\ UNCHANGED << callerVars, tokVars, pcInput, sentVars, recvVars, initialized,
                    uuidCtr, wireVars, gatherExc, aborted, result,
                    closeCalls, finalizerRuns, optVars >>

\* gather returns: the three tasks completed
GatherDone ==
    /\ pcRun = "gather"
    /\ AllDone
    /\ pcRun' = "cancelling"
    /\ UNCHANGED << callerVars, tokVars, pcInput, sentVars, recvVars, initialized,
                    uuidCtr, wireVars, cancelReq, gatherExc, aborted, result,
                    closeCalls, finalizerRuns, optVars >>

\* gather raises the first task failure; gracefully_cancel cancels the tasks
GatherFail ==
    /\ pcRun = "gather"
    /\ gatherExc # "none"
    /\ cancelReq' = TRUE
    /\ pcRun' = "cancelling"
    /\ UNCHANGED << callerVars, tokVars, pcInput, sentVars, recvVars, initialized,
                    uuidCtr, wireVars, gatherExc, aborted, result, closeCalls,
                    finalizerRuns, optVars >>

\* Join with the tasks cancelled but not awaited
JoinNoWait ==
    /\ pcRun = "cancelling"
    /\ result' = Outcome(aborted, gatherExc)
    /\ pcRun' = "finalize"
    /\ UNCHANGED << callerVars, tokVars, pcInput, sentVars, recvVars, initialized,
                    uuidCtr, wireVars, cancelReq, gatherExc, aborted, closeCalls,
                    finalizerRuns, optVars >>

\* gracefully_cancel returns once every task has terminated; the exception
\* handlers pick the outcome
Join ==
    /\ pcRun = "cancelling"
    /\ AllTerminated
    /\ result' = Outcome(aborted, gatherExc)
    /\ pcRun' = "finalize"
    /\ UNCHANGED << callerVars, tokVars, pcInput, sentVars, recvVars, initialized,
                    uuidCtr, wireVars, cancelReq, gatherExc, aborted, closeCalls,
                    finalizerRuns, optVars >>

\* the outer finally block
Finalize ==
    /\ pcRun = "finalize"
    /\ finalizerRuns' = finalizerRuns + 1
    /\ IF ShouldClose(ws)
       THEN /\ closeCalls' = closeCalls + 1
            /\ ws' = "closed"
       ELSE UNCHANGED << closeCalls, ws >>
    /\ pcRun' = "closed"
    /\ UNCHANGED << callerVars, tokVars, pcInput, sentVars, recvVars, initialized,
                    uuidCtr, connLost, peerClosed, cancelReq, gatherExc, aborted,
                    result, optVars >>

\* the outer finally block when _close_ws raises: nothing around the call
\* catches, so the exception leaves _run in place of whatever was being raised
\* or returned
FinalizeCloseFails ==
    /\ pcRun = "finalize"
    /\ ShouldClose(ws)
    /\ finalizerRuns' = finalizerRuns + 1
    /\ closeCalls' = closeCalls + 1
    /\ ws' = "closed"
    /\ result' = "closeerror"
    /\ pcRun' = "closed"
    /\ UNCHANGED << callerVars, tokVars, pcInput, sentVars, recvVars, initialized,
                    uuidCtr, connLost, peerClosed, cancelReq, gatherExc, aborted,
                    optVars >>

\* the task running _run is cancelled (SynthesizeStream.aclose, or the caller
\* abandoning the stream): while connecting the connect is abandoned; while
\* in gather the three tasks are cancelled with it; while in gracefully_cancel
\* the tasks, cancelled already, are woken before _run is, so the wait still
\* ends with every task terminated and only the outcome changes
Abort ==
    /\ ~aborted
    /\ pcRun \in {"connecting", "gather", "cancelling"}
    /\ aborted' = TRUE
    /\ IF pcRun = "connecting"
       THEN /\ result' = Outcome(TRUE, "none")
            /\ finalizerRuns' = finalizerRuns + 1
            /\ pcRun' = "closed"
            /\ UNCHANGED cancelReq
       ELSE IF pcRun = "gather"
       THEN /\ cancelReq' = TRUE
            /\ pcRun' = "cancelling"
            /\ UNCHANGED << result, finalizerRuns >>
       ELSE UNCHANGED << cancelReq, pcRun, result, finalizerRuns >>
    /\ UNCHANGED << callerVars, tokVars, pcInput, sentVars, recvVars, initialized,
                    uuidCtr, wireVars, gatherExc, closeCalls, optVars >>

\* ---------------------------------------------------------- LocalTTS.aclose
\* on a client whose stream has finished: stream.aclose() finds the task done,
\* the set of streams is cleared, the (unused) pool is closed
TTSAclose ==
    /\ pcRun = "closed"
    /\ streams' = {}
    /\ UNCHANGED << ttsVoice, streamVoice, nUpdates, callerVars, tokVars, pcInput, sentVars,
                    recvVars, initialized, uuidCtr, wireVars, runVars >>

Next ==
    \/ \E t \in Frags : PushText(t)
    \/ PushFlush
    \/ EndInput
    \/ \E v \in Voices : UpdateOptions(v)
    \/ InputStep
    \/ InputEnd
    \/ InputCancel
    \/ SentNext
    \/ SentFinal
    \/ SendOk
    \/ SendFail
    \/ SentCancel
    \/ \E m \in Messages : RecvMsg(m)
    \/ RecvClose
    \/ ConnDrop
    \/ RecvDropped
    \/ RecvCancel
    \/ RunStart
    \/ ConnectOk
    \/ \E exc \in {"timeout", "connect_error"} : ConnectFail(exc)
    \/ GatherDone
    \/ GatherFail
    \/ Join
    \/ Finalize
    \/ FinalizeCloseFails
    \/ Abort
    \/ TTSAclose

Spec == Init /\ [][Next]_vars

\* the steps the event loop takes on its own: a task or _run that can run is
\* run, a started send or connect completes one way or the other. What the
\* caller, the server and the network do is left out.
ProgNext ==
    \/ InputStep
    \/ InputEnd
    \/ InputCancel
    \/ SentNext
    \/ SentFinal
    \/ SendOk
    \/ SendFail
    \/ SentCancel
    \/ RecvCancel
    \/ RunStart
    \/ ConnectOk
    \/ \E exc \in {"timeout", "connect_error"} : ConnectFail(exc)
    \/ GatherDone
    \/ GatherFail
    \/ Join
    \/ Finalize
    \/ FinalizeCloseFails

\* the event loop never leaves a runnable step waiting forever
FairSpec == Spec /\ WF_vars(ProgNext)

\* ================================================================ claims
\* the calls of one kind, in order
CallsOf(log, op) == SelectSeq(log, LAMBDA c : c.op = op)
NumCalls(log, op) == Len(CallsOf(log, op))

\* is a segment open after the first i calls of log
OpenAfter(log, i) ==
    NumCalls(SubSeq(log, 1, i), "start_segment") > NumCalls(SubSeq(log, 1, i), "end_segment")

WellFormed(log) ==
    \A i \in 1..Len(log) :
        /\ log[i].op = "push" => OpenAfter(log, i - 1)
        /\ log[i].op = "start_segment" => ~OpenAfter(log, i - 1)
        /\ log[i].op = "end_segment" => OpenAfter(log, i - 1)

\* C1: whatever frames, close, failure or cancellation the receive task meets,
\* the emitter sees no push and no end_segment outside an open segment and no
\* start_segment inside one, and once the receive task has terminated (also by
\* an exception or a cancellation) every opened segment has been ended once.
C1_EmitterWellFormed ==
    /\ WellFormed(emitLog)
    /\ Terminated(pcRecv) =>
          NumCalls(emitLog, "end_segment") = NumCalls(emitLog, "start_segment")

\* the receive task failed inside an open segment that had audio pushed
C1_Witness ==
    /\ pcRecv = "failed"
    /\ NumCalls(emitLog, "push") >= 1
    /\ NumCalls(emitLog, "end_segment") = 1

\* the payloads of a sequence of records
DataOf(seq) == [i \in 1..Len(seq) |-> seq[i].data]
BinaryMsgs(log) == SelectSeq(log, LAMBDA m : m.type = "BINARY")

\* a message that opens a segment when none is open
IsOpenSignal(m) == m.type = "BINARY" \/ (m.json = "start" /\ m.sid # NoId)
HasOpenSignal(log) == \E i \in 1..Len(log) : IsOpenSignal(log[i])
FirstOpenSignal(log) ==
    log[CHOOSE i \in 1..Len(log) :
            IsOpenSignal(log[i]) /\ \A j \in 1..(i - 1) : ~IsOpenSignal(log[j])]

IsLocalId(id) == id[1] = "uuid"

\* C7: first start wins. At most one start_segment is ever made, it is made
\* for the first segment-open signal received, and it carries that signal's id
\* (the server's id for a start frame); later start frames and chunks add none.
C7_FirstStartWins ==
    LET starts == CallsOf(emitLog, "start_segment")
    IN  /\ Len(starts) <= 1
        /\ Len(starts) = 1 <=> HasOpenSignal(recvLog)
        /\ HasOpenSignal(recvLog) /\ FirstOpenSignal(recvLog).type = "TEXT" =>
              starts[1].sid = FirstOpenSignal(recvLog).sid

\* two start frames with different ids arrived with no segment closed between
C7_Witness ==
    /\ Len(recvLog) >= 2
    /\ recvLog[1].json = "start"
    /\ recvLog[2].json = "start"
    /\ recvLog[2].sid # NoId
    /\ recvLog[1].sid # recvLog[2].sid
    /\ NumCalls(emitLog, "end_segment") = 0

\* C8: the payloads pushed to the emitter are the payloads of the binary
\* frames received, same order, none dropped or duplicated; and when the first
\* segment-open signal is a binary frame, the log begins with a start_segment
\* carrying a locally generated id immediately followed by that frame's push.
C8_PushesAreBinaryFrames ==
    /\ DataOf(CallsOf(emitLog, "push")) = DataOf(BinaryMsgs(recvLog))
    /\ HasOpenSignal(recvLog) /\ FirstOpenSignal(recvLog).type = "BINARY" =>
          /\ Len(emitLog) >= 2
          /\ emitLog[1].op = "start_segment"
          /\ IsLocalId(emitLog[1].sid)
          /\ emitLog[2] = Push(FirstOpenSignal(recvLog).data)

\* two binary frames with different payloads arrived, the first with no
\* segment open
C8_Witness ==
    /\ Len(recvLog) >= 2
    /\ recvLog[1].type = "BINARY"
    /\ recvLog[2].type = "BINARY"
    /\ recvLog[1].data # recvLog[2].data

\* the terminal request: continue = false, empty input, segment_id "final"
IsTerminal(p) == ~p.continue /\ p.input = <<>> /\ p.segment_id = FinalId
Continuations(log) == SelectSeq(log, LAMBDA p : p.continue)

\* C2: once the sentence task has returned (end of input reached, every send
\* succeeded), the requests sent number one more than the tokens the tokenizer
\* produced, exactly one of them is the terminal request, and it is the last.
C2_RequestCount ==
    pcSent = "done" =>
        /\ Len(sent) = Len(produced) + 1
        /\ Len(SelectSeq(sent, IsTerminal)) = 1
        /\ IsTerminal(sent[Len(sent)])
        /\ \A i \in 1..(Len(sent) - 1) : sent[i].continue

\* text and a flush were pushed, two tokens came out, the task returned
C2_Witness ==
    /\ pcSent = "done"
    /\ Len(produced) = 2
    /\ inputClosed

\* C9: the continuation requests sent so far carry, in order, the first tokens
\* the tokenizer produced (each with its trailing space); a packet is in flight
\* only while the task is in its send, and it is the next token's; nothing
\* follows the terminal request.
C9_RequestsFifo ==
    LET conts == Continuations(sent)
    IN  /\ Len(conts) <= Len(produced)
        /\ \A i \in 1..Len(conts) : conts[i].input = Append(produced[i], " ")
        /\ \A i \in 1..Len(sent) : IsTerminal(sent[i]) => i = Len(sent)
        /\ (\E i \in 1..Len(sent) : IsTerminal(sent[i])) => pcSent = "done"
        /\ (pcSent = "send") <=> (curPkt # NoPkt)
        /\ pcSent = "send" /\ curPkt.continue =>
              /\ Len(conts) < Len(produced)
              /\ curPkt.input = Append(produced[Len(conts) + 1], " ")

\* two different tokens were produced and both their requests were sent
C9_Witness ==
    /\ Len(Continuations(sent)) = 2
    /\ produced[1] # produced[2]

\* C3: a stream aborted after its three tasks were launched ends with the
\* finally block of _run having run once, every task terminated, end_segment
\* called once if a segment was ever opened and not at all otherwise, and the
\* websocket closed: by one _close_ws call unless the receive side had closed
\* it already, and then by none.
C3_AbortFinalizesOnce ==
    /\ aborted => finalizerRuns <= 1 /\ closeCalls <= 1
                  /\ NumCalls(emitLog, "end_segment") <= 1
    /\ aborted /\ pcRun = "closed" /\ ws # "none" =>
          /\ finalizerRuns = 1
          /\ AllTerminated
          /\ NumCalls(emitLog, "end_segment") = (IF segment_started THEN 1 ELSE 0)
          /\ ws = "closed"
          /\ closeCalls = (IF peerClosed THEN 0 ELSE 1)

\* the stream was aborted while a segment was open and the websocket too
C3_Witness ==
    /\ aborted
    /\ pcRun = "closed"
    /\ segment_started
    /\ ~peerClosed
    /\ gatherExc = "none"
    /\ closeCalls = 1

\* C10: once the websocket is closed no further _close_ws call and no further
\* end_segment call is made, whoever runs next (the finally block of _run, the
\* client's aclose); and once _run has ended nothing changes its outcome, its
\* close count, its finalizer count or the emitter's calls.
C10_CloseIdempotent ==
    [][ /\ ws = "closed" =>
              /\ closeCalls' = closeCalls
              /\ ws' = "closed"
              /\ NumCalls(emitLog', "end_segment") = NumCalls(emitLog, "end_segment")
        /\ pcRun = "closed" =>
              /\ pcRun' = "closed"
              /\ result' = result
              /\ closeCalls' = closeCalls
              /\ finalizerRuns' = finalizerRuns
              /\ emitLog' = emitLog ]_vars

\* the finally block ran on a websocket the receive side had closed, and the
\* client was closed afterwards
C10_Witness ==
    /\ pcRun = "closed"
    /\ peerClosed
    /\ finalizerRuns = 1
    /\ closeCalls = 0
    /\ streams = {}

\* the scenario of C5: one start frame, then n >= 1 binary chunks, then the
\* server closes, on a stream that completes normally
C5_Scenario ==
    /\ pcRun = "closed"
    /\ result = "ok"
    /\ peerClosed
    /\ ~connLost
    /\ Len(recvLog) >= 2
    /\ recvLog[1].json = "start"
    /\ recvLog[1].sid # NoId
    /\ \A i \in 2..Len(recvLog) : recvLog[i].type = "BINARY"

C5_Pushes == [i \in 1..(Len(recvLog) - 1) |-> Push(recvLog[i + 1].data)]

\* C5 (as amended): in that scenario the emitter sees exactly start_segment
\* with the server's id, one push per chunk in order, then end_segment; _run
\* makes no flush call.
C5_StartPushEnd ==
    C5_Scenario =>
        emitLog = << StartSegment(recvLog[1].sid) >> \o C5_Pushes \o << EndSegment >>

\* C5 (as stated): the same sequence followed by a flush call
C5_StartPushEndFlush ==
    C5_Scenario =>
        emitLog = << StartSegment(recvLog[1].sid) >> \o C5_Pushes \o << EndSegment, Flush >>

\* the scenario with two chunks
C5_Witness == C5_Scenario /\ Len(recvLog) = 3

\* C4 (as stated): a stream whose connection dropped while it was streaming,
\* which was not aborted and whose _close_ws did not raise, ends with a
\* connection error, its segment ended and its finally block run.
C4_DropEndsInError ==
    connLost /\ ~aborted /\ pcRun = "closed" /\ result # "closeerror" =>
        /\ result = "connerror"
        /\ NumCalls(emitLog, "end_segment") = NumCalls(emitLog, "start_segment")
        /\ finalizerRuns = 1

\* a text frame that is malformed, of an unknown type, or a start without id
IsBadControl(m) ==
    /\ m.type = "TEXT"
    /\ \/ m.json \in {"malformed", "unknown"}
       \/ m.json = "start" /\ m.sid = NoId

\* C6 (as stated): a malformed or unrecognized text frame never makes the
\* receive task fail.
C6_BadControlNonFatal ==
    (\E i \in 1..Len(recvLog) : IsBadControl(recvLog[i])) =>
        pcRecv # "failed" /\ gatherExc # "recv_error"

\* C11: joint shutdown. Once _run has left gather, either the three tasks had
\* completed or a cancel was requested on them; _run reaches its finally block,
\* and its end, only with the three tasks terminated; and at any _close_ws call
\* every task has terminated and every opened segment has been ended.
C11_JoinBeforeClose ==
    /\ pcRun \in {"cancelling", "finalize"} => cancelReq \/ AllDone
    /\ pcRun \in {"finalize", "closed"} /\ ws # "none" => AllTerminated
    /\ closeCalls > 0 =>
          /\ AllTerminated
          /\ NumCalls(emitLog, "end_segment") = NumCalls(emitLog, "start_segment")

\* one task failed while a segment was open, the other two were cancelled,
\* and _run closed the websocket
C11_Witness ==
    /\ pcRun = "closed"
    /\ pcSent = "failed"
    /\ pcInput = "cancelled"
    /\ segment_started
    /\ ~peerClosed
    /\ closeCalls = 1

\* C12 (as stated): when a task has failed and the stream was not aborted, the
\* error _run ends with is the connection error made from the first failure.
C12_FirstErrorSurfaces ==
    gatherExc # "none" /\ ~aborted /\ pcRun = "closed" =>
        result = Outcome(FALSE, gatherExc)

\* C15 (as stated): whatever _close_ws does, _run ends with the outcome of its
\* tasks: the first failure's error, a cancellation, or success.
C15_CloseFailureSwallowed ==
    pcRun = "closed" /\ ws # "none" => result = Outcome(aborted, gatherExc)

\* C13: a stream that ends with a timeout error never streamed: the connect
\* did not return a websocket, none of the three tasks was created, nothing was
\* sent, the emitter got no segment call and _close_ws was not called. (So a
\* timeout error is only ever the end of a stream that never streamed.)
C13_TimeoutNeverStreams ==
    result = "timeout" =>
        /\ pcRun = "closed"
        /\ ws = "none"
        /\ pcInput = "none" /\ pcSent = "none" /\ pcRecv = "none"
        /\ sent = <<>>
        /\ emitLog = <<>>
        /\ closeCalls = 0
        /\ finalizerRuns = 1

\* the connect timed out on a stream the caller had already pushed text to
C13_Witness ==
    /\ result = "timeout"
    /\ inputCh # <<>>
    /\ inputClosed

\* C14 (as stated): the emitter is initialized only once the connect has
\* returned a websocket.
C14_InitAfterConnect == initialized => ws # "none"

\* C14 (as amended): the emitter is initialized when _run starts, before the
\* connect is attempted; the tasks exist only on an initialized emitter, and a
\* stream whose connect failed or timed out has been initialized all the same.
C14_InitBeforeConnect ==
    /\ initialized <=> pcRun # "idle"
    /\ pcRecv # "none" => initialized
    /\ pcRun = "closed" /\ ws = "none" => initialized

\* the connect failed on an initialized emitter
C14_Witness ==
    /\ result = "connerror"
    /\ ws = "none"
    /\ initialized

\* the message the receive task takes in this step, if it takes one
TakesMsg == Len(recvLog') = Len(recvLog) + 1
TakenMsg == recvLog'[Len(recvLog')]
HasEndFrame(log) == \E i \in 1..Len(log) : log[i].json = "end"

\* C16: taking an end frame makes no emitter call and leaves segment_started
\* and the task as they were; and a binary chunk taken after an end frame,
\* with the segment open, is pushed with no start_segment before it.
C16_EndFrameNoAction ==
    [][ /\ TakesMsg /\ TakenMsg.json = "end" =>
              /\ emitLog' = emitLog
              /\ segment_started' = segment_started
              /\ pcRecv' = pcRecv
        /\ TakesMsg /\ TakenMsg.type = "BINARY" /\ segment_started
                    /\ HasEndFrame(recvLog) =>
              /\ emitLog' = Append(emitLog, Push(TakenMsg.data))
              /\ segment_started' ]_vars

\* a chunk, an end frame, another chunk: both chunks in the one open segment
C16_Witness ==
    /\ Len(recvLog) = 3
    /\ recvLog[1].type = "BINARY"
    /\ recvLog[2].json = "end"
    /\ recvLog[3].type = "BINARY"
    /\ pcRecv = "run"
    /\ NumCalls(emitLog, "push") = 2

\* C19: in one run start_segment is called at most once and end_segment at
\* most once, end_segment only by a receive task that has terminated, and
\* segment_started is true exactly when the one start_segment has been made
\* (it is never reset), so every push lies in that one segment.
C19_SingleSegment ==
    /\ NumCalls(emitLog, "start_segment") <= 1
    /\ NumCalls(emitLog, "end_segment") <= 1
    /\ NumCalls(emitLog, "end_segment") = 1 => Terminated(pcRecv)
    /\ segment_started <=> NumCalls(emitLog, "start_segment") = 1
    /\ NumCalls(emitLog, "push") > 0 => emitLog[1].op = "start_segment"

\* a start frame, an end frame and a second start frame were received and
\* the task has ended
C19_Witness ==
    /\ Len(recvLog) = 3
    /\ recvLog[1].json = "start"
    /\ recvLog[2].json = "end"
    /\ recvLog[3].json = "start"
    /\ recvLog[3].sid # NoId
    /\ pcRecv = "done"

\* C17: a run that ends in Closed(ok) has all three tasks completed: end_input
\* was called on the tokenizer stream, the terminal request is the last
\* request sent, and the receive task saw the connection closed. And while
\* the caller's input is open, the server's close alone (no failure, no
\* abort) leaves _run waiting in gather.
C17_OkOnlyIfAllDone ==
    /\ result = "ok" =>
          /\ pcInput = "done" /\ pcSent = "done" /\ pcRecv = "done"
          /\ inputClosed /\ inputCh = <<>>
          /\ tokClosed
          /\ Len(sent) >= 1 /\ sent[Len(sent)] = FinalPkt(streamVoice)
          /\ peerClosed
          /\ gatherExc = "none" /\ ~aborted
    /\ peerClosed /\ ~inputClosed /\ gatherExc = "none" /\ ~aborted => pcRun = "gather"

\* a run closed with ok after a token request and the terminal request
C17_Witness ==
    /\ pcRun = "closed"
    /\ result = "ok"
    /\ Len(sent) = 2
    /\ recvLog # <<>>

\* the server has closed, the receive task is done, the input is still open
\* and the stream is still running
C17_WitnessOpenInput ==
    /\ peerClosed /\ pcRecv = "done" /\ ~inputClosed /\ pcRun = "gather"
    /\ inputCh # <<>>

\* C20: every request of the stream, the terminal one included, sent or being
\* sent, carries the voice the client had when the stream was created
\* ("tara"), whatever update_options has written to the client since; the
\* stream's own options never change.
C20_VoiceSnapshot ==
    /\ streamVoice = "tara"
    /\ \A i \in 1..Len(sent) : sent[i].voice = "tara"
    /\ pcSent = "send" => curPkt.voice = "tara"

\* update_options changed the client's voice while the stream was running,
\* and a token request and the terminal request were sent
C20_Witness ==
    /\ ttsVoice = "leo"
    /\ nUpdates >= 1
    /\ Len(sent) = 2
    /\ sent[1].continue
    /\ ~sent[2].continue

\* the terminal request has been sent and the server has closed the connection
C18_NormalEnd ==
    /\ inputClosed
    /\ \E i \in 1..Len(sent) : ~sent[i].continue
    /\ peerClosed

\* one of the three tasks has raised
C18_ActivityFailed == pcInput = "failed" \/ pcSent = "failed" \/ pcRecv = "failed"

\* C18: under a fair event loop, once the caller has ended the input, the
\* terminal request has been sent and the server has closed the connection,
\* or once any task has failed, _run eventually is over with the three tasks
\* terminated and the websocket closed.
C18_EventuallyClosed ==
    (C18_NormalEnd \/ C18_ActivityFailed)
        ~> (pcRun = "closed" /\ AllTerminated /\ ws = "closed")

\* a run over after a failed send, the receive task having been cancelled
\* while it was waiting for a message
C18_Witness ==
    /\ pcRun = "closed"
    /\ pcSent = "failed"
    /\ cancelReq
    /\ ~peerClosed
    /\ pcRecv = "done"
    /\ ws = "closed"

====
